---------------------------- MODULE Spec2Model ----------------------------
(***************************************************************************)
(* Tile manager of Wplace-SkirkMarble: the smart (LRU) tile cache, the     *)
(* frozen tile cache and the pause/resume wrapping of                      *)
(* templateManager.drawTemplateOnTile (src/unnamed/part_000), with the     *)
(* persisted settings it reads and writes (src/src/settingsManager.js).    *)
(*                                                                         *)
(* JavaScript strings are sequences of UTF-16 code units (numbers), so     *)
(* that concatenation, padStart, sort and join are computed as the code    *)
(* computes them.  JavaScript values that flow through the caches (Blobs,  *)
(* null) are records of one shape, [kind, size, type].                     *)
(*                                                                         *)
(* Environment assumptions: localStorage / GM storage accept every write   *)
(* and hold well-formed JSON (the catch blocks of the storage helpers are  *)
(* not modelled); Date.now() never decreases; one templateManager object;  *)
(* the host calls initializeTileRefreshPause before any other export.      *)
(***************************************************************************)
EXTENDS Integers, Sequences, FiniteSets, Bags, TLC

(***************************************************************************)
(* Bounds of the model.                                                    *)
(***************************************************************************)
\* maxCacheSize is 500 in the source (part_000:21); scaled down.
maxCacheSize == 3
\* the eviction overshoot, 10 in the source (part_000:126); scaled down.
evictMargin == 1
\* the frozen cache cap, 100 in the source (part_000:287,355); scaled down.
frozenCap == 2
\* statistics are saved every 50th access in the source (part_000:150); scaled down.
statsPeriod == 2
\* number of requests (drawTemplateOnTile, forceRefreshSingleTile) in one behaviour
MaxRequests == 2
\* number of requests suspended in the compositing operation at one time
MaxInFlight == 2
\* largest timestamp (see DateNow)
MaxClock == 2
\* number of invalidateCache() imports scheduled and not yet run
MaxScheduled == 1

(***************************************************************************)
(* JavaScript strings and values                                           *)
(***************************************************************************)
\* "_", "|", ",", "-", "0"
chUnderscore == <<95>>
chBar == <<124>>
chComma == <<44>>
chMinus == <<45>>
\* 'unnamed'
strUnnamed == <<117, 110, 110, 97, 109, 101, 100>>
\* 'nodata'
strNodata == <<110, 111, 100, 97, 116, 97>>
\* 'png'
strPng == <<112, 110, 103>>
\* 'A', 'B', 'A_0|B'
strA == <<65>>
strB == <<66>>
strA0B == <<65, 95, 48, 124, 66>>

\* Number.prototype.toString() of a natural number
RECURSIVE NatToString(_)
NatToString(n) ==
  IF n < 10 THEN <<48 + n>> ELSE NatToString(n \div 10) \o <<48 + (n % 10)>>

\* Number.prototype.toString() of an integer
NumToString(n) == IF n < 0 THEN chMinus \o NatToString(0 - n) ELSE NatToString(n)

\* String.prototype.padStart(4, '0')
padStart4(s) ==
  IF Len(s) >= 4 THEN s ELSE [i \in 1..(4 - Len(s)) |-> 48] \o s

\* a < b in the code-unit order Array.prototype.sort() uses for strings
RECURSIVE StrLess(_, _)
StrLess(a, b) ==
  IF b = <<>> THEN FALSE
  ELSE IF a = <<>> THEN TRUE
  ELSE IF Head(a) # Head(b) THEN Head(a) < Head(b)
  ELSE StrLess(Tail(a), Tail(b))

\* insertion of s into a sorted sequence of strings
RECURSIVE InsertSorted(_, _)
InsertSorted(s, sorted) ==
  IF sorted = <<>> THEN <<s>>
  ELSE IF StrLess(s, Head(sorted)) THEN <<s>> \o sorted
  ELSE <<Head(sorted)>> \o InsertSorted(s, Tail(sorted))

\* the labels in the order of the template list, not sorted
unsortedLabels(seq) == seq

\* Array.prototype.sort() without a comparator, on an array of strings
RECURSIVE SortStrings(_)
SortStrings(seq) ==
  IF seq = <<>> THEN <<>> ELSE InsertSorted(Head(seq), SortStrings(Tail(seq)))

\* Array.prototype.join('|')
RECURSIVE JoinBar(_)
JoinBar(seq) ==
  IF seq = <<>> THEN <<>>
  ELSE IF Len(seq) = 1 THEN Head(seq)
  ELSE Head(seq) \o chBar \o JoinBar(Tail(seq))

\* the values a tile payload or a composite can be: a Blob or null
Null == [kind |-> "null", size |-> 0, type |-> <<>>]
Blob(size, type) == [kind |-> "blob", size |-> size, type |-> type]
\* JavaScript truthiness of such a value (objects are truthy, null is not)
Truthy(v) == v.kind # "null"

\* tile coordinates as the callers pass them: an array [x, y]
Coords(x, y) == [isArray |-> TRUE, x |-> x, y |-> y, str |-> <<>>]

\* coordsKey of generateCacheKey (part_000:83-85)
tileKeyOf(tileCoords) ==
  IF tileCoords.isArray
  THEN padStart4(NumToString(tileCoords.x)) \o chComma \o padStart4(NumToString(tileCoords.y))
  ELSE tileCoords.str

\* a template: name and sortID may be absent, enabled is "true", "false" or "absent"
Template(hasName, name, hasSortID, sortID, enabled) ==
  [hasName |-> hasName, name |-> name, hasSortID |-> hasSortID, sortID |-> sortID,
   enabled |-> enabled]

\* `${template.name || 'unnamed'}_${template.sortID || 0}`
templateLabel(t) ==
  (IF t.hasName /\ t.name # <<>> THEN t.name ELSE strUnnamed)
    \o chUnderscore
    \o (IF t.hasSortID /\ t.sortID # 0 THEN NumToString(t.sortID) ELSE NumToString(0))

\* template.enabled !== false
templateEnabled(t) == t.enabled # "false"

\* templateArray.filter(template => template.enabled !== false)
RECURSIVE filterEnabled(_)
filterEnabled(seq) ==
  IF seq = <<>> THEN <<>>
  ELSE IF templateEnabled(Head(seq)) THEN <<Head(seq)>> \o filterEnabled(Tail(seq))
  ELSE filterEnabled(Tail(seq))

generateCacheKey(tileCoords, templateArray, tileBlob) ==
  LET coordsKey == tileKeyOf(tileCoords)
      kept == filterEnabled(templateArray)
      templateHash ==
        IF Len(templateArray) > 0
        THEN JoinBar(SortStrings([i \in 1..Len(kept) |-> templateLabel(kept[i])]))
        ELSE <<>>
      contentHash ==
        IF Truthy(tileBlob) /\ tileBlob.size # 0
        THEN NumToString(tileBlob.size) \o chUnderscore \o tileBlob.type
        ELSE strNodata
  IN coordsKey \o chUnderscore \o templateHash \o chUnderscore \o contentHash

(***************************************************************************)
(* Inputs of the model                                                     *)
(***************************************************************************)
\* (payload, coordinates) pairs: three tiles, one of them with two payloads
Request(tileBlob, tileCoords) == [tileBlob |-> tileBlob, tileCoords |-> tileCoords]
RequestList == <<Request(Blob(100, strPng), Coords(12, 7)),
                 Request(Blob(100, strPng), Coords(1, 2)),
                 Request(Blob(200, strPng), Coords(12, 7)),
                 Request(Blob(100, strPng), Coords(0, 0))>>
\* what the host asks for during a behaviour: the first tile, the first tile with
\* another payload, and a third tile
Requests == {RequestList[1], RequestList[3], RequestList[4]}
\* what the host's compositing operation can resolve to
Results == {Blob(300, strPng), Null}
\* templateManager.templatesArray at the time of a request
TemplateArrays == {<<Template(TRUE, strA, TRUE, 1, "true")>>}
\* the templates and the result of the requests a warm session has behind it
WarmTemplates == <<Template(TRUE, strA, TRUE, 1, "true")>>
WarmResult == Blob(300, strPng)
\* what storage holds at startup: nothing (first run), or what an earlier session
\* left (pause flag, cache flag, cache version, statistics)
Saved(paused, enabled, version, stats) ==
  [paused |-> paused, enabled |-> enabled, version |-> version, stats |-> stats]
NoStats == [present |-> FALSE, hits |-> 0, misses |-> 0]
OldStats == [present |-> TRUE, hits |-> 1, misses |-> 1]
SavedStates == {Saved("null", "null", "null", NoStats),
                Saved("true", "true", "1.0", OldStats),
                Saved("null", "false", "0.9", OldStats)}

\* the arguments of one generateCacheKey call
KeyInput(tileCoords, templateArray, tileBlob) ==
  [tileCoords |-> tileCoords, templateArray |-> templateArray, tileBlob |-> tileBlob]

\* templates whose labels can be confused
tA1 == Template(TRUE, strA, TRUE, 1, "true")
tA1off == Template(TRUE, strA, TRUE, 1, "false")
tA0 == Template(TRUE, strA, TRUE, 0, "absent")
tB0 == Template(TRUE, strB, TRUE, 0, "true")
tA0B == Template(TRUE, strA0B, TRUE, 0, "true")
tBare == Template(FALSE, <<>>, FALSE, 0, "absent")
tUnnamed == Template(TRUE, strUnnamed, TRUE, 0, "true")

\* the calls whose keys KeySpec compares
KeyTemplateArrays == {<<>>, <<tA1>>, <<tA1off>>, <<tA0, tB0>>, <<tB0, tA0>>, <<tA0B>>,
                      <<tBare>>, <<tUnnamed>>, <<tA1, tA1off>>}
KeyCoords == {Coords(12, 7), Coords(7, 12)}
KeyBlobs == {Null, Blob(0, strPng), Blob(100, strPng), Blob(200, strPng)}
KeyInputs == {KeyInput(c, t, b) : c \in KeyCoords, t \in KeyTemplateArrays, b \in KeyBlobs}

\* no call of generateCacheKey is under study
NoKeys == [built |-> FALSE, a |-> KeyInput(Coords(0, 0), <<>>, Null),
           b |-> KeyInput(Coords(0, 0), <<>>, Null), keyA |-> <<>>, keyB |-> <<>>]

(***************************************************************************)
(* Module state (part_000:9-23) and its environment                        *)
(***************************************************************************)
VARIABLES
  tileRefreshPaused,           \* part_000:10
  originalDrawTemplateOnTile,  \* part_000:11: "null" or "host"
  frozenTileCache,             \* part_000:12: Map in insertion order, <<[key, value]>>
  smartTileCacheEnabled,       \* part_000:16
  smartTileCache,              \* part_000:17: key -> value
  cacheAccessOrder,            \* part_000:18: Map in insertion order, <<[key, time]>>
  cacheHits,                   \* part_000:19
  cacheMisses,                 \* part_000:20
  drawTemplateOnTile,          \* templateManager.drawTemplateOnTile: "host", "paused" or "running"
  lsPaused,                    \* storage key bmTileRefreshPaused
  lsEnabled,                   \* storage key bmSmartTileCache
  lsVersion,                   \* storage key bmSmartTileCacheVersion
  lsStats,                     \* storage key bmSmartTileCacheStats
  pending,                     \* bag of calls suspended at `await originalDrawTemplateOnTile`
  scheduled,                   \* invalidateCache() imports not yet resolved
  remaining,                   \* number of requests the host still makes
  keys,                        \* inputs and results of generateCacheKey (KeySpec)
  accessLog,                   \* history: the cached keys in the order of their last access
  obs                          \* what the last operation did and returned

vars == <<tileRefreshPaused, originalDrawTemplateOnTile, frozenTileCache,
          smartTileCacheEnabled, smartTileCache, cacheAccessOrder, cacheHits,
          cacheMisses, drawTemplateOnTile, lsPaused, lsEnabled, lsVersion, lsStats,
          pending, scheduled, remaining, keys, accessLog, obs>>

\* part_000:13: assigned nowhere in the module
isCapturingState == FALSE
\* part_000:22
cacheVersion == "1.0"

\* the record of an operation: what happened ("call": it is suspended in the original,
\* "return", "throw"), the function that ran, what it returned (ret for a tile, flag
\* for a boolean), the number of calls it made to originalDrawTemplateOnTile, and
\* whether its probe of the smart cache was counted as a hit
Obs(op, strategy, ret, flag, calls, hit) ==
  [op |-> op, strategy |-> strategy, ret |-> ret, flag |-> flag, calls |-> calls,
   hit |-> hit]
\* an operation that is no request: its name and its boolean result (for
\* invalidateCacheForSettingsChange, whether it logged an invalidation)
ObsPlain(name, flag) == Obs("return", name, Null, flag, 0, FALSE)

(***************************************************************************)
(* The smart tile cache (part_000:108-216)                                 *)
(***************************************************************************)
Min(a, b) == IF a <= b THEN a ELSE b

\* Map.prototype.has / get on a Map kept as a sequence of [key, ...] entries
IndexOf(map, key) ==
  IF \E i \in 1..Len(map) : map[i].key = key
  THEN CHOOSE i \in 1..Len(map) : map[i].key = key
  ELSE 0

\* the latest timestamp in cacheAccessOrder
RECURSIVE latestAccess(_)
latestAccess(order) ==
  IF order = <<>> THEN 0
  ELSE IF Head(order).time >= latestAccess(Tail(order)) THEN Head(order).time
  ELSE latestAccess(Tail(order))

\* Date.now() at an access.  The clock never runs backwards, so it reads the latest
\* timestamp already in cacheAccessOrder or a later one; the code only compares
\* timestamps (part_000:124), so one later value stands for all of them.
DateNow(order) ==
  IF order = <<>> THEN {0}
  ELSE {t \in {latestAccess(order), latestAccess(order) + 1} : t <= MaxClock}

\* a ledger that puts a new key in front of the older ones
accessAtFront(order, key, t) ==
  IF IndexOf(order, key) > 0
  THEN [order EXCEPT ![IndexOf(order, key)].time = t]
  ELSE <<[key |-> key, time |-> t]>> \o order

\* cacheAccessOrder.set(key, Date.now()): an existing key keeps its place
updateCacheAccess(order, key, t) ==
  IF IndexOf(order, key) > 0
  THEN [order EXCEPT ![IndexOf(order, key)].time = t]
  ELSE Append(order, [key |-> key, time |-> t])

\* the history of accesses after an access to key: key is the latest
touch(log, key) == SelectSeq(log, LAMBDA k : k # key) \o <<key>>

\* e placed before the first entry of `sorted` that is not older than e
RECURSIVE InsertByTime(_, _)
InsertByTime(e, sorted) ==
  IF sorted = <<>> THEN <<e>>
  ELSE IF e.time <= Head(sorted).time THEN <<e>> \o sorted
  ELSE <<Head(sorted)>> \o InsertByTime(e, Tail(sorted))

\* the entries as the ledger holds them, not sorted
ledgerOrder(order) == order

\* Array.from(cacheAccessOrder.entries()).sort(([,a], [,b]) => a - b): a stable sort
RECURSIVE SortByTime(_)
SortByTime(order) ==
  IF order = <<>> THEN <<>> ELSE InsertByTime(Head(order), SortByTime(Tail(order)))

\* a slice that leaves the margin out: only the excess entries
sliceExcess(seq, n) == SubSeq(seq, 1, Min(n - evictMargin, Len(seq)))

\* Array.prototype.slice(0, n)
SliceFirst(seq, n) == SubSeq(seq, 1, Min(n, Len(seq)))

\* an eviction that starts one entry too late
evictLateByOne(cache, order) ==
  LET size == Cardinality(DOMAIN cache) IN
  IF size <= maxCacheSize + 1 THEN [cache |-> cache, order |-> order]
  ELSE
    LET sortedEntries == SortByTime(order)
        entriesToRemove == SliceFirst(sortedEntries, size - maxCacheSize + evictMargin)
        gone == {entriesToRemove[i].key : i \in 1..Len(entriesToRemove)}
    IN [cache |-> [k \in DOMAIN cache \ gone |-> cache[k]],
        order |-> SelectSeq(order, LAMBDA e : e.key \notin gone)]

\* an eviction that removes the entries at the wrong end of the sorted list
evictNewest(cache, order) ==
  LET size == Cardinality(DOMAIN cache) IN
  IF size <= maxCacheSize THEN [cache |-> cache, order |-> order]
  ELSE
    LET sortedEntries == SortByTime(order)
        n == Min(size - maxCacheSize + evictMargin, Len(sortedEntries))
        entriesToRemove == SubSeq(sortedEntries, Len(sortedEntries) - n + 1,
                                  Len(sortedEntries))
        gone == {entriesToRemove[i].key : i \in 1..Len(entriesToRemove)}
    IN [cache |-> [k \in DOMAIN cache \ gone |-> cache[k]],
        order |-> SelectSeq(order, LAMBDA e : e.key \notin gone)]

evictLRUEntries(cache, order) ==
  LET size == Cardinality(DOMAIN cache) IN
  IF size <= maxCacheSize THEN [cache |-> cache, order |-> order]
  ELSE
    LET sortedEntries == SortByTime(order)
        entriesToRemove == SliceFirst(sortedEntries, size - maxCacheSize + evictMargin)
        gone == {entriesToRemove[i].key : i \in 1..Len(entriesToRemove)}
    IN [cache |-> [k \in DOMAIN cache \ gone |-> cache[k]],
        order |-> SelectSeq(order, LAMBDA e : e.key \notin gone)]

\* smartTileCache.set(cacheKey, processedTile)
cacheSet(cache, key, value) ==
  [k \in DOMAIN cache \cup {key} |-> IF k = key THEN value ELSE cache[k]]

\* storeInSmartCache up to the statistics: the cache and the access order afterwards
storeInSmartCache(enabled, cache, order, cacheKey, processedTile, t) ==
  IF ~enabled THEN [cache |-> cache, order |-> order]
  ELSE evictLRUEntries(cacheSet(cache, cacheKey, processedTile),
                       updateCacheAccess(order, cacheKey, t))

\* the statistics record storeInSmartCache leaves in storage (part_000:149-152)
statsAfterStore(enabled, hits, misses, saved) ==
  IF enabled /\ (hits + misses) % statsPeriod = 0
  THEN [present |-> TRUE, hits |-> hits, misses |-> misses]
  ELSE saved

\* a probe that stamps the key in the ledger on a miss as well
getStampsMisses(enabled, cache, order, hits, misses, cacheKey, t) ==
  IF ~enabled
  THEN [value |-> Null, hit |-> FALSE, order |-> order, hits |-> hits, misses |-> misses]
  ELSE IF cacheKey \in DOMAIN cache
  THEN [value |-> cache[cacheKey], hit |-> TRUE,
        order |-> updateCacheAccess(order, cacheKey, t),
        hits |-> hits + 1, misses |-> misses]
  ELSE [value |-> Null, hit |-> FALSE, order |-> updateCacheAccess(order, cacheKey, t),
        hits |-> hits, misses |-> misses + 1]

\* getFromSmartCache: the value returned (Null for null), and the state afterwards
getFromSmartCache(enabled, cache, order, hits, misses, cacheKey, t) ==
  IF ~enabled
  THEN [value |-> Null, hit |-> FALSE, order |-> order, hits |-> hits, misses |-> misses]
  ELSE IF cacheKey \in DOMAIN cache
  THEN [value |-> cache[cacheKey], hit |-> TRUE,
        order |-> updateCacheAccess(order, cacheKey, t),
        hits |-> hits + 1, misses |-> misses]
  ELSE [value |-> Null, hit |-> FALSE, order |-> order, hits |-> hits,
        misses |-> misses + 1]

\* saveCacheStatistics: the record written under bmSmartTileCacheStats
saveCacheStatistics(hits, misses) == [present |-> TRUE, hits |-> hits, misses |-> misses]

EmptyCache == [k \in {} |-> Null]

\* a clear that does not save the statistics
clearWithoutSaving ==
  [cache |-> EmptyCache, order |-> <<>>, hits |-> 0, misses |-> 0, stats |-> lsStats]

\* clearSmartTileCache: the whole smart-cache state afterwards
clearSmartTileCache ==
  [cache |-> EmptyCache, order |-> <<>>, hits |-> 0, misses |-> 0,
   stats |-> saveCacheStatistics(0, 0)]

\* Number.prototype.toFixed(1) of hits / (hits + misses) * 100, hits + misses > 0
toFixed1(hits, misses) ==
  LET tenths == (2000 * hits + (hits + misses)) \div (2 * (hits + misses))
  IN NumToString(tenths \div 10) \o <<46>> \o NumToString(tenths % 10)

getSmartCacheStats ==
  LET hitRate == IF cacheHits + cacheMisses > 0
                 THEN toFixed1(cacheHits, cacheMisses)
                 ELSE <<48, 46, 48>>
  IN [enabled |-> smartTileCacheEnabled,
      size |-> Cardinality(DOMAIN smartTileCache),
      maxSize |-> maxCacheSize,
      hits |-> cacheHits,
      misses |-> cacheMisses,
      hitRate |-> hitRate \o <<37>>]

\* tileKey of the running wrappers, under which they write to the frozen cache
\* (part_000:281-283 and 349-351, the same text)
wrapperTileKey(tileCoords) ==
  IF tileCoords.isArray
  THEN padStart4(NumToString(tileCoords.x)) \o chComma \o padStart4(NumToString(tileCoords.y))
  ELSE tileCoords.str

\* a paused function that looks tiles up without padding the coordinates
pausedKeyUnpadded(tileCoords) ==
  IF tileCoords.isArray
  THEN NumToString(tileCoords.x) \o chComma \o NumToString(tileCoords.y)
  ELSE tileCoords.str

\* tileKey of the paused function, under which it looks tiles up (part_000:312-314)
pausedTileKey(tileCoords) ==
  IF tileCoords.isArray
  THEN padStart4(NumToString(tileCoords.x)) \o chComma \o padStart4(NumToString(tileCoords.y))
  ELSE tileCoords.str

(***************************************************************************)
(* The frozen tile cache (part_000:284-290, 317-320, 352-358)              *)
(***************************************************************************)
frozenHas(frozen, tileKey) == IndexOf(frozen, tileKey) > 0
frozenGet(frozen, tileKey) == frozen[IndexOf(frozen, tileKey)].value

\* frozenTileCache.set(tileKey, result): an existing key keeps its place
frozenSet(frozen, tileKey, result) ==
  IF frozenHas(frozen, tileKey)
  THEN [frozen EXCEPT ![IndexOf(frozen, tileKey)].value = result]
  ELSE Append(frozen, [key |-> tileKey, value |-> result])

\* a limit that deletes the newest key instead of the first
frozenLimitNewest(frozen) ==
  IF Len(frozen) > frozenCap THEN SubSeq(frozen, 1, Len(frozen) - 1) ELSE frozen

\* if (frozenTileCache.size > 100) delete the first key
frozenLimit(frozen) == IF Len(frozen) > frozenCap THEN Tail(frozen) ELSE frozen

\* a paused function without the fallback to the input tile
pausedDrawNoFallback(frozen, tileBlob, tileCoords) ==
  IF frozenHas(frozen, pausedTileKey(tileCoords))
  THEN frozenGet(frozen, pausedTileKey(tileCoords))
  ELSE Null

\* the paused drawTemplateOnTile (part_000:310-325)
pausedDraw(frozen, tileBlob, tileCoords) ==
  IF frozenHas(frozen, pausedTileKey(tileCoords))
  THEN frozenGet(frozen, pausedTileKey(tileCoords))
  ELSE tileBlob

(***************************************************************************)
(* Settings (settingsManager.js:331-381, 387-437)                          *)
(***************************************************************************)
\* a save that writes the flag negated
jsonNegated(b) == IF b THEN "false" ELSE "true"

\* JSON.stringify of a boolean
jsonBool(b) == IF b THEN "true" ELSE "false"
\* a startup that ignores the saved flag
getPausedDefault == FALSE

\* getTileRefreshPaused (settingsManager.js:331-358)
getTileRefreshPaused == IF lsPaused # "null" THEN lsPaused = "true" ELSE FALSE
getSmartTileCacheEnabled == IF lsEnabled # "null" THEN lsEnabled = "true" ELSE TRUE

(***************************************************************************)
(* Startup                                                                 *)
(***************************************************************************)
\* the module as loaded (part_000:9-23), with what an earlier session left in storage
Loaded ==
  /\ tileRefreshPaused = FALSE
  /\ originalDrawTemplateOnTile = "null"
  /\ frozenTileCache = <<>>
  /\ smartTileCacheEnabled = TRUE
  /\ smartTileCache = EmptyCache
  /\ cacheAccessOrder = <<>>
  /\ cacheHits = 0
  /\ cacheMisses = 0
  /\ drawTemplateOnTile = "host"
  /\ \E saved \in SavedStates :
       /\ lsPaused = saved.paused
       /\ lsEnabled = saved.enabled
       /\ lsVersion = saved.version
       /\ lsStats = saved.stats
  /\ pending = EmptyBag
  /\ scheduled = 0
  /\ remaining = MaxRequests
  /\ accessLog = <<>>
  /\ obs = ObsPlain("none", FALSE)

\* The state of a first session in which the host initialized and then composited
\* the first n tiles of RequestList one after the other within one millisecond,
\* each resolving to the first result: the caches as storeInSmartCache and the
\* frozen-cache writes leave them.
RECURSIVE warmStore(_)
warmStore(n) ==
  IF n = 0 THEN [cache |-> EmptyCache, order |-> <<>>, frozen |-> <<>>,
                 stats |-> saveCacheStatistics(0, 0), log |-> <<>>]
  ELSE LET before == warmStore(n - 1)
           q == RequestList[n]
           cacheKey == generateCacheKey(q.tileCoords, WarmTemplates, q.tileBlob)
           stored == storeInSmartCache(TRUE, before.cache, before.order,
                                       cacheKey, WarmResult, 0)
       IN [cache |-> stored.cache, order |-> stored.order,
           frozen |-> frozenLimit(frozenSet(before.frozen, wrapperTileKey(q.tileCoords),
                                            WarmResult)),
           stats |-> statsAfterStore(TRUE, 0, n, before.stats),
           log |-> SelectSeq(touch(before.log, cacheKey),
                             LAMBDA k : k \in DOMAIN stored.cache)]

\* a session that already filled the smart cache to maxCacheSize, and in which the
\* host still makes n requests
Warmed(n) ==
  LET warm == warmStore(maxCacheSize) IN
  /\ tileRefreshPaused = FALSE
  /\ originalDrawTemplateOnTile = "host"
  /\ frozenTileCache = warm.frozen
  /\ smartTileCacheEnabled = TRUE
  /\ smartTileCache = warm.cache
  /\ cacheAccessOrder = warm.order
  /\ cacheHits = 0
  /\ cacheMisses = maxCacheSize
  /\ drawTemplateOnTile = "running"
  /\ lsPaused = "null"
  /\ lsEnabled = "null"
  /\ lsVersion = cacheVersion
  /\ lsStats = warm.stats
  /\ pending = EmptyBag
  /\ scheduled = 0
  /\ remaining = n
  /\ accessLog = warm.log
  /\ obs = Obs("return", "running", WarmResult, FALSE, 1, FALSE)

Warm == Warmed(1)

Init == (Loaded \/ Warm) /\ keys = NoKeys

\* the host calls initializeTileRefreshPause at startup, before it uses anything else
initialized == originalDrawTemplateOnTile # "null"

\* applyTileRefreshPause: the function installed as templateManager.drawTemplateOnTile
applyTileRefreshPause(paused, original, current) ==
  IF paused THEN "paused"
  ELSE IF original # "null" THEN "running"
  ELSE current

\* an initialize that captures the installed function at every call
capturedAgain == drawTemplateOnTile

\* the delegate after initialize: captured from templateManager only while none is
\* stored (part_000:257-258)
capturedOriginal ==
  IF originalDrawTemplateOnTile = "null"
  THEN drawTemplateOnTile
  ELSE originalDrawTemplateOnTile

\* a startup that reads the saved statistics before the version check
loadedBeforeCheck == lsStats

\* the record initializeSmartTileCache reads under bmSmartTileCacheStats: on a version
\* mismatch the clear has written zeros before the read (part_000:56-63)
loadedStatistics ==
  IF lsVersion # cacheVersion THEN clearSmartTileCache.stats ELSE lsStats

\* initializeTileRefreshPause, with initializeSmartTileCache (part_000:50-72, 249-301)
initializeTileRefreshPause ==
  LET mismatch == lsVersion # cacheVersion
      cleared == clearSmartTileCache
      stats == loadedStatistics
      paused == getTileRefreshPaused
      original == capturedOriginal
      current == IF originalDrawTemplateOnTile = "null"
                 THEN "wrapper"
                 ELSE drawTemplateOnTile
  IN /\ smartTileCacheEnabled' = getSmartTileCacheEnabled
     /\ smartTileCache' = IF mismatch THEN cleared.cache ELSE smartTileCache
     /\ cacheAccessOrder' = IF mismatch THEN cleared.order ELSE cacheAccessOrder
     /\ accessLog' = IF mismatch THEN <<>> ELSE accessLog
     /\ lsVersion' = cacheVersion
     /\ lsStats' = stats
     /\ cacheHits' = IF stats.present THEN stats.hits ELSE 0
     /\ cacheMisses' = IF stats.present THEN stats.misses ELSE 0
     /\ tileRefreshPaused' = paused
     /\ originalDrawTemplateOnTile' = original
     /\ drawTemplateOnTile' = applyTileRefreshPause(paused, original, current)
     /\ obs' = ObsPlain("initialize", FALSE)
     /\ UNCHANGED <<keys, frozenTileCache, lsPaused, lsEnabled, pending, scheduled, remaining>>

(***************************************************************************)
(* Compositing requests: templateManager.drawTemplateOnTile(blob, coords)  *)
(***************************************************************************)
\* a call originalDrawTemplateOnTile(tileBlob, tileCoords) in progress, with what the
\* caller suspended at its `await` holds
Suspended(kind, tileBlob, tileCoords, cacheKey, hit) ==
  [kind |-> kind, tileBlob |-> tileBlob, tileCoords |-> tileCoords,
   cacheKey |-> cacheKey, hit |-> hit]

\* whether a running wrapper probes the smart cache (part_000:266 and 334)
probesCache(installed) ==
  IF installed = "wrapper"
  THEN ~tileRefreshPaused /\ smartTileCacheEnabled
  ELSE smartTileCacheEnabled

\* the paused function answers from the frozen cache (part_000:310-325)
RequestPaused(tileBlob, tileCoords) ==
  /\ drawTemplateOnTile = "paused"
  /\ remaining > 0
  /\ remaining' = remaining - 1
  /\ obs' = Obs("return", "paused", pausedDraw(frozenTileCache, tileBlob, tileCoords),
                FALSE, 0, FALSE)
  /\ UNCHANGED <<keys, accessLog, tileRefreshPaused, originalDrawTemplateOnTile, frozenTileCache,
                 smartTileCacheEnabled, smartTileCache, cacheAccessOrder, cacheHits,
                 cacheMisses, drawTemplateOnTile, lsPaused, lsEnabled, lsVersion,
                 lsStats, pending, scheduled>>

\* the running wrapper up to its return or its await (part_000:261-274, 329-342)
RequestRunning(tileBlob, tileCoords, templatesArray) ==
  /\ drawTemplateOnTile \in {"running", "wrapper"}
  /\ remaining > 0
  /\ remaining' = remaining - 1
  /\ \E now \in DateNow(cacheAccessOrder) :
     LET cacheKey == generateCacheKey(tileCoords, templatesArray, tileBlob)
         probe == IF probesCache(drawTemplateOnTile)
                  THEN getFromSmartCache(smartTileCacheEnabled, smartTileCache,
                                         cacheAccessOrder, cacheHits, cacheMisses,
                                         cacheKey, now)
                  ELSE [value |-> Null, hit |-> FALSE, order |-> cacheAccessOrder,
                        hits |-> cacheHits, misses |-> cacheMisses]
     IN /\ cacheAccessOrder' = probe.order
        /\ accessLog' = IF probe.hit THEN touch(accessLog, cacheKey) ELSE accessLog
        /\ cacheHits' = probe.hits
        /\ cacheMisses' = probe.misses
        /\ IF Truthy(probe.value)
           THEN /\ obs' = Obs("return", "running", probe.value, FALSE, 0, probe.hit)
                /\ pending' = pending
           ELSE /\ BagCardinality(pending) < MaxInFlight
                /\ obs' = Obs("call", "running", Null, FALSE, 1, probe.hit)
                /\ pending' = pending (+) SetToBag({Suspended("draw", tileBlob, tileCoords,
                                                              cacheKey, probe.hit)})
  /\ UNCHANGED <<keys, tileRefreshPaused, originalDrawTemplateOnTile, frozenTileCache,
                 smartTileCacheEnabled, smartTileCache, drawTemplateOnTile, lsPaused,
                 lsEnabled, lsVersion, lsStats, scheduled>>

\* forceRefreshSingleTile up to its await (part_000:421-427)
forceRefreshSingleTile(tileBlob, tileCoords) ==
  /\ initialized
  /\ remaining > 0
  /\ remaining' = remaining - 1
  /\ IF originalDrawTemplateOnTile # "null"
     THEN /\ BagCardinality(pending) < MaxInFlight
          /\ obs' = Obs("call", "force", Null, FALSE, 1, FALSE)
          /\ pending' = pending (+) SetToBag({Suspended("force", tileBlob, tileCoords,
                                                        <<>>, FALSE)})
     ELSE /\ obs' = Obs("return", "force", tileBlob, FALSE, 0, FALSE)
          /\ pending' = pending
  /\ UNCHANGED <<keys, accessLog, tileRefreshPaused, originalDrawTemplateOnTile, frozenTileCache,
                 smartTileCacheEnabled, smartTileCache, cacheAccessOrder, cacheHits,
                 cacheMisses, drawTemplateOnTile, lsPaused, lsEnabled, lsVersion,
                 lsStats, scheduled>>

\* a wrapper that does not look at the pause flag after the await
writesWhilePaused == ~isCapturingState /\ smartTileCacheEnabled

\* whether a wrapper writes its result through (part_000:277 and 345)
writesThrough == ~tileRefreshPaused /\ ~isCapturingState /\ smartTileCacheEnabled

\* a forced refresh that went through the wrapper's bookkeeping
storesAnyResult(kind) == writesThrough

\* whether the caller that resumes stores the result: the wrappers do, under
\* writesThrough; forceRefreshSingleTile returns it as it is (part_000:424)
storesResult(kind) == kind = "draw" /\ writesThrough

\* the rest of a suspended call once the original resolved to `result`
\* (part_000:276-293, 344-361, 424)
Continue(r, result) ==
  /\ pending' = pending (-) SetToBag({r})
  /\ obs' = Obs("return", IF r.kind = "draw" THEN "running" ELSE "force", result,
                FALSE, 1, r.hit)
  /\ IF storesResult(r.kind)
     THEN \E now \in DateNow(cacheAccessOrder) :
          LET stored == storeInSmartCache(smartTileCacheEnabled, smartTileCache,
                                          cacheAccessOrder, r.cacheKey, result, now)
          IN /\ smartTileCache' = stored.cache
             /\ cacheAccessOrder' = stored.order
             /\ accessLog' = SelectSeq(touch(accessLog, r.cacheKey),
                                       LAMBDA k : k \in DOMAIN stored.cache)
             /\ lsStats' = statsAfterStore(smartTileCacheEnabled, cacheHits,
                                           cacheMisses, lsStats)
             /\ frozenTileCache' =
                  frozenLimit(frozenSet(frozenTileCache, wrapperTileKey(r.tileCoords), result))
     ELSE UNCHANGED <<smartTileCache, cacheAccessOrder, lsStats, frozenTileCache,
                      accessLog>>
  /\ UNCHANGED <<keys, tileRefreshPaused, originalDrawTemplateOnTile, smartTileCacheEnabled,
                 cacheHits, cacheMisses, drawTemplateOnTile, lsPaused, lsEnabled,
                 lsVersion, scheduled, remaining>>

\* the host's compositing operation resolves
Resolve(r) ==
  /\ r \in BagToSet(pending)
  /\ \E result \in Results : Continue(r, result)

\* a wrapper that swallows the rejection and goes on with undefined
RejectSwallowed(r) ==
  /\ r \in BagToSet(pending)
  /\ Continue(r, Null)

\* the host's compositing operation rejects: the await throws
Reject(r) ==
  /\ r \in BagToSet(pending)
  /\ pending' = pending (-) SetToBag({r})
  /\ obs' = Obs("throw", IF r.kind = "draw" THEN "running" ELSE "force", Null, FALSE,
                1, r.hit)
  /\ UNCHANGED <<keys, accessLog, tileRefreshPaused, originalDrawTemplateOnTile, frozenTileCache,
                 smartTileCacheEnabled, smartTileCache, cacheAccessOrder, cacheHits,
                 cacheMisses, drawTemplateOnTile, lsPaused, lsEnabled, lsVersion,
                 lsStats, scheduled, remaining>>

(***************************************************************************)
(* Controls                                                                *)
(***************************************************************************)
\* toggleTileRefreshPause, with saveTileRefreshPaused (part_000:383-404,
\* settingsManager.js:364-381)
toggleTileRefreshPause ==
  /\ initialized
  /\ scheduled < MaxScheduled
  /\ tileRefreshPaused' = ~tileRefreshPaused
  /\ lsPaused' = jsonBool(~tileRefreshPaused)
  /\ scheduled' = scheduled + 1
  /\ drawTemplateOnTile' = applyTileRefreshPause(~tileRefreshPaused,
                                                 originalDrawTemplateOnTile,
                                                 drawTemplateOnTile)
  /\ obs' = ObsPlain("togglePause", ~tileRefreshPaused)
  /\ UNCHANGED <<keys, accessLog, originalDrawTemplateOnTile, frozenTileCache, smartTileCacheEnabled,
                 smartTileCache, cacheAccessOrder, cacheHits, cacheMisses, lsEnabled,
                 lsVersion, lsStats, pending, remaining>>

\* a toggle that keeps the entries when the cache is switched off
keepsOnToggle(enabled) == FALSE

\* whether toggleSmartTileCache clears, given the flag it has just set
\* (part_000:226-228)
clearsOnToggle(enabled) == ~enabled

\* toggleSmartTileCache, with saveSmartTileCacheEnabled (part_000:222-232,
\* settingsManager.js:424-441)
toggleSmartTileCache ==
  /\ initialized
  /\ scheduled < MaxScheduled
  /\ smartTileCacheEnabled' = ~smartTileCacheEnabled
  /\ lsEnabled' = jsonBool(~smartTileCacheEnabled)
  /\ scheduled' = scheduled + 1
  /\ IF clearsOnToggle(~smartTileCacheEnabled)
     THEN /\ smartTileCache' = clearSmartTileCache.cache
          /\ cacheAccessOrder' = clearSmartTileCache.order
          /\ accessLog' = <<>>
          /\ cacheHits' = clearSmartTileCache.hits
          /\ cacheMisses' = clearSmartTileCache.misses
          /\ lsStats' = clearSmartTileCache.stats
     ELSE UNCHANGED <<smartTileCache, cacheAccessOrder, cacheHits, cacheMisses, lsStats,
                      accessLog>>
  /\ obs' = ObsPlain("toggleCache", ~smartTileCacheEnabled)
  /\ UNCHANGED <<keys, tileRefreshPaused, originalDrawTemplateOnTile, frozenTileCache,
                 drawTemplateOnTile, lsPaused, lsVersion, pending, remaining>>

\* an invalidation that spares a cache of one entry
invalidatesFromTwo == smartTileCacheEnabled /\ Cardinality(DOMAIN smartTileCache) > 1

\* whether invalidateCacheForSettingsChange clears (part_000:239)
invalidates == smartTileCacheEnabled /\ Cardinality(DOMAIN smartTileCache) > 0

\* the body of invalidateCacheForSettingsChange (part_000:238-243)
invalidateBody ==
  /\ IF invalidates
     THEN /\ smartTileCache' = clearSmartTileCache.cache
          /\ cacheAccessOrder' = clearSmartTileCache.order
          /\ accessLog' = <<>>
          /\ cacheHits' = clearSmartTileCache.hits
          /\ cacheMisses' = clearSmartTileCache.misses
          /\ lsStats' = clearSmartTileCache.stats
     ELSE UNCHANGED <<smartTileCache, cacheAccessOrder, cacheHits, cacheMisses, lsStats,
                      accessLog>>
  /\ UNCHANGED <<keys, tileRefreshPaused, originalDrawTemplateOnTile, frozenTileCache,
                 smartTileCacheEnabled, drawTemplateOnTile, lsPaused, lsEnabled,
                 lsVersion, pending, remaining>>

\* the host calls invalidateCacheForSettingsChange
invalidateCacheForSettingsChange ==
  /\ initialized
  /\ invalidateBody
  /\ obs' = ObsPlain("invalidate", invalidates)
  /\ UNCHANGED scheduled

\* an import scheduled by invalidateCache() resolves (settingsManager.js:11-20)
invalidateCache ==
  /\ scheduled > 0
  /\ scheduled' = scheduled - 1
  /\ invalidateBody
  /\ obs' = ObsPlain("invalidate", invalidates)

\* clearFrozenTileCache (part_000:454-458)
clearFrozenTileCache ==
  /\ initialized
  /\ frozenTileCache' = <<>>
  /\ obs' = ObsPlain("clearFrozen", FALSE)
  /\ UNCHANGED <<keys, accessLog, tileRefreshPaused, originalDrawTemplateOnTile, smartTileCacheEnabled,
                 smartTileCache, cacheAccessOrder, cacheHits, cacheMisses,
                 drawTemplateOnTile, lsPaused, lsEnabled, lsVersion, lsStats,
                 pending, scheduled, remaining>>

Next ==
  \/ initializeTileRefreshPause
  \/ \E q \in Requests : RequestPaused(q.tileBlob, q.tileCoords)
  \/ \E q \in Requests, t \in TemplateArrays :
       RequestRunning(q.tileBlob, q.tileCoords, t)
  \/ \E q \in Requests : forceRefreshSingleTile(q.tileBlob, q.tileCoords)
  \/ \E r \in BagToSet(pending) : Resolve(r)
  \/ \E r \in BagToSet(pending) : Reject(r)
  \/ toggleTileRefreshPause
  \/ toggleSmartTileCache
  \/ invalidateCacheForSettingsChange
  \/ invalidateCache
  \/ clearFrozenTileCache

Spec == Init /\ [][Next]_vars

(***************************************************************************)
(* KeySpec: generateCacheKey applied to two calls                          *)
(***************************************************************************)
mainVars == <<tileRefreshPaused, originalDrawTemplateOnTile, frozenTileCache,
              smartTileCacheEnabled, smartTileCache, cacheAccessOrder, cacheHits,
              cacheMisses, drawTemplateOnTile, lsPaused, lsEnabled, lsVersion, lsStats,
              pending, scheduled, remaining, accessLog, obs>>

KeyInit ==
  /\ Warm
  /\ \E a \in KeyInputs, b \in KeyInputs :
       keys = [built |-> FALSE, a |-> a, b |-> b, keyA |-> <<>>, keyB |-> <<>>]

\* the wrapper computes the key of each call (part_000:263, 331)
BuildKeys ==
  /\ ~keys.built
  /\ keys' = [keys EXCEPT
                !.built = TRUE,
                !.keyA = generateCacheKey(keys.a.tileCoords, keys.a.templateArray,
                                          keys.a.tileBlob),
                !.keyB = generateCacheKey(keys.b.tileCoords, keys.b.templateArray,
                                          keys.b.tileBlob)]
  /\ UNCHANGED mainVars

\* the host makes another second call
NextCall ==
  /\ keys.built
  /\ \E b \in KeyInputs :
       keys' = [built |-> FALSE, a |-> keys.a, b |-> b, keyA |-> <<>>, keyB |-> <<>>]
  /\ UNCHANGED mainVars

KeyNext == BuildKeys \/ NextCall

KeySpec == KeyInit /\ [][KeyNext]_vars

(***************************************************************************)
(* PutSpec: a first session that composites distinct tiles one after the   *)
(* other, starting from an empty smart cache                               *)
(***************************************************************************)
\* the number of distinct keys that fills the cache, overflows it once and fills it
\* again
MaxPuts == maxCacheSize + evictMargin + 1

\* the i-th tile the host asks for
PutRequest(i) == Request(Blob(100, strPng), Coords(i, 0))

\* the state after initializeTileRefreshPause on a first run (nothing in storage)
PutInit ==
  /\ tileRefreshPaused = FALSE
  /\ originalDrawTemplateOnTile = "host"
  /\ frozenTileCache = <<>>
  /\ smartTileCacheEnabled = TRUE
  /\ smartTileCache = EmptyCache
  /\ cacheAccessOrder = <<>>
  /\ cacheHits = 0
  /\ cacheMisses = 0
  /\ drawTemplateOnTile = "running"
  /\ lsPaused = "null"
  /\ lsEnabled = "null"
  /\ lsVersion = cacheVersion
  /\ lsStats = saveCacheStatistics(0, 0)
  /\ pending = EmptyBag
  /\ scheduled = 0
  /\ remaining = MaxPuts
  /\ accessLog = <<>>
  /\ keys = NoKeys
  /\ obs = ObsPlain("initialize", FALSE)

\* the host asks for the next tile
PutRequestNext ==
  \E t \in TemplateArrays :
    LET q == PutRequest(MaxPuts - remaining + 1)
    IN RequestRunning(q.tileBlob, q.tileCoords, t)

\* a compositing call resolves and the wrapper stores the result
PutResolve == \E r \in BagToSet(pending) : Resolve(r)

PutNext == PutRequestNext \/ PutResolve

PutSpec == PutInit /\ [][PutNext]_vars

(***************************************************************************)
(* LruSpec: a session with a full smart cache in which the host asks for   *)
(* two more tiles                                                          *)
(***************************************************************************)
LruInit == Warmed(2) /\ keys = NoKeys

\* the host asks for a tile
LruRequest ==
  \E q \in Requests, t \in TemplateArrays : RequestRunning(q.tileBlob, q.tileCoords, t)

\* a compositing call resolves and the wrapper stores the result
LruResolve == \E r \in BagToSet(pending) : Resolve(r)

\* a compositing call rejects
LruReject == \E r \in BagToSet(pending) : Reject(r)

LruNext == LruRequest \/ LruResolve \/ LruReject

LruSpec == LruInit /\ [][LruNext]_vars

(***************************************************************************)
(* FreezeSpec: a first session in which the host asks for one tile with    *)
(* two payloads, and pauses and resumes                                    *)
(***************************************************************************)
\* the tile with its two payloads
FreezeRequests == {RequestList[1], RequestList[3]}
\* two composites that differ
FreezeResults == {Blob(300, strPng), Blob(400, strPng)}

\* the host asks for the tile while running
FreezeRequest ==
  \E q \in FreezeRequests, t \in TemplateArrays :
    RequestRunning(q.tileBlob, q.tileCoords, t)

\* the host asks for the tile while paused
FreezeRequestPaused == \E q \in FreezeRequests : RequestPaused(q.tileBlob, q.tileCoords)

\* a compositing call resolves
FreezeResolve ==
  \E r \in BagToSet(pending), result \in FreezeResults : Continue(r, result)

FreezeNext ==
  \/ FreezeRequest
  \/ FreezeRequestPaused
  \/ FreezeResolve
  \/ toggleTileRefreshPause
  \/ invalidateCache

FreezeSpec == PutInit /\ [][FreezeNext]_vars

(***************************************************************************)
(* Properties                                                              *)
(***************************************************************************)
\* the host calls templateManager.drawTemplateOnTile(q.tileBlob, q.tileCoords)
RequestOf(q) ==
  \/ RequestPaused(q.tileBlob, q.tileCoords)
  \/ \E t \in TemplateArrays : RequestRunning(q.tileBlob, q.tileCoords, t)

\* the frozen cache holds value v under the normalized coordinate of tileCoords
FrozenHolds(frozen, tileCoords, v) ==
  \E i \in 1..Len(frozen) :
    frozen[i].key = tileKeyOf(tileCoords) /\ frozen[i].value = v

\* the frozen cache has an entry for tileCoords
FrozenKnows(frozen, tileCoords) ==
  \E i \in 1..Len(frozen) : frozen[i].key = tileKeyOf(tileCoords)

\* the keys of the access ledger, in its order
LedgerKeys(order) == [i \in 1..Len(order) |-> order[i].key]

\* C1: a request made while paused returns the frozen entry of its tile if there is
\* one and its input payload otherwise, calls the original not at all, and leaves
\* the frozen cache, the smart cache, the ledger, the counters and the calls in
\* progress as they were.
C1_PausedServesFrozen ==
  [][\A q \in Requests :
       (tileRefreshPaused /\ RequestOf(q)) =>
         /\ obs'.op = "return"
         /\ obs'.calls = 0
         /\ \/ FrozenHolds(frozenTileCache, q.tileCoords, obs'.ret)
            \/ ~FrozenKnows(frozenTileCache, q.tileCoords) /\ obs'.ret = q.tileBlob
         /\ pending' = pending
         /\ UNCHANGED <<frozenTileCache, smartTileCache, cacheAccessOrder, cacheHits,
                        cacheMisses, lsStats>>]_vars

\* C1 happens: paused, and the last request was answered from the frozen cache
C1_Witness ==
  /\ tileRefreshPaused
  /\ obs.op = "return" /\ obs.strategy = "paused"
  /\ \E i \in 1..Len(frozenTileCache) : frozenTileCache[i].value = obs.ret

\* C2: while running with the smart cache enabled, a request whose key is in the smart
\* cache returns the stored value at once and calls the original not at all,
\* whatever the stored value is.
C2_HitNeverComposites ==
  [][\A q \in Requests, t \in TemplateArrays :
       LET cacheKey == generateCacheKey(q.tileCoords, t, q.tileBlob) IN
       (/\ RequestRunning(q.tileBlob, q.tileCoords, t)
        /\ ~tileRefreshPaused /\ smartTileCacheEnabled
        /\ cacheKey \in DOMAIN smartTileCache) =>
         /\ obs'.op = "return"
         /\ obs'.ret = smartTileCache[cacheKey]
         /\ obs'.calls = 0
         /\ pending' = pending]_vars

\* C3: when the original resolves for a wrapper request that missed, while running
\* with the smart cache enabled and not capturing, the result is returned and is in
\* the smart cache under the request's key and in the frozen cache under its tile.
C3_MissWritesThrough ==
  [][\A r \in BagToSet(pending), result \in Results :
       (/\ Continue(r, result)
        /\ r.kind = "draw" /\ ~r.hit
        /\ ~tileRefreshPaused /\ smartTileCacheEnabled /\ ~isCapturingState) =>
         /\ obs'.op = "return" /\ obs'.ret = result
         /\ r.cacheKey \in DOMAIN smartTileCache'
         /\ smartTileCache'[r.cacheKey] = result
         /\ FrozenHolds(frozenTileCache', r.tileCoords, result)]_vars

\* C3 happens after a pause was toggled off: a miss was composited and written through
C3_Witness ==
  /\ lsPaused = "false" /\ ~tileRefreshPaused /\ smartTileCacheEnabled
  /\ obs.op = "return" /\ obs.strategy = "running" /\ obs.calls = 1 /\ ~obs.hit
  /\ \E k \in DOMAIN smartTileCache : smartTileCache[k] = obs.ret
  /\ \E i \in 1..Len(frozenTileCache) : frozenTileCache[i].value = obs.ret

\* C4: when the original resolves for a wrapper request while running with the smart
\* cache disabled and not capturing, the result is in the frozen cache under its tile.
C4_DisabledStillFreezes ==
  [][\A r \in BagToSet(pending), result \in Results :
       (/\ Continue(r, result)
        /\ r.kind = "draw"
        /\ ~tileRefreshPaused /\ ~smartTileCacheEnabled /\ ~isCapturingState) =>
         /\ obs'.calls = 1
         /\ FrozenHolds(frozenTileCache', r.tileCoords, result)]_vars

\* C5: forceRefreshSingleTile calls the original once, with its payload and
\* coordinates, paused or not, returns what the original resolves to, and leaves the
\* smart cache, the ledger, the frozen cache and the counters as they were, at the
\* call and at its completion.
C5_ForceRefreshBypasses ==
  [][/\ \A q \in Requests :
          forceRefreshSingleTile(q.tileBlob, q.tileCoords) =>
            /\ pending' = pending (+) SetToBag({Suspended("force", q.tileBlob,
                                                          q.tileCoords, <<>>, FALSE)})
            /\ obs'.op = "call" /\ obs'.calls = 1
            /\ UNCHANGED <<smartTileCache, cacheAccessOrder, frozenTileCache, cacheHits,
                           cacheMisses>>
     /\ \A r \in BagToSet(pending) :
          (r.kind = "force" /\ (Reject(r) \/ \E result \in Results : Continue(r, result))) =>
            /\ obs'.calls = 1
            /\ \A result \in Results : Continue(r, result) => obs'.ret = result
            /\ UNCHANGED <<smartTileCache, cacheAccessOrder, frozenTileCache, cacheHits,
                           cacheMisses>>]_vars

\* C5 happens while paused: a forced refresh returned what the original resolved to
C5_Witness ==
  /\ tileRefreshPaused
  /\ obs.op = "return" /\ obs.strategy = "force" /\ obs.calls = 1 /\ Truthy(obs.ret)
  /\ smartTileCache # EmptyCache

\* C6: when the original rejects for a wrapper request, the caller gets the rejection,
\* and neither that step nor the request's own call changed the smart cache, the keys
\* of the ledger or the frozen cache.
C6_RejectionNotCached ==
  [][/\ \A r \in BagToSet(pending) :
          (Reject(r) /\ r.kind = "draw") =>
            /\ obs'.op = "throw"
            /\ UNCHANGED <<smartTileCache, cacheAccessOrder, frozenTileCache>>
     /\ \A q \in Requests, t \in TemplateArrays :
          RequestRunning(q.tileBlob, q.tileCoords, t) =>
            /\ UNCHANGED <<smartTileCache, frozenTileCache>>
            /\ LedgerKeys(cacheAccessOrder') = LedgerKeys(cacheAccessOrder)]_vars

\* C6 happens: a wrapper request was rejected while both caches hold entries
C6_Witness ==
  /\ obs.op = "throw" /\ obs.strategy = "running"
  /\ smartTileCache # EmptyCache /\ frozenTileCache # <<>>

\* C7: between operations the smart cache never holds more than maxCacheSize entries.
C7_SizeBounded == Cardinality(DOMAIN smartTileCache) <= maxCacheSize

\* C7 happens: one more miss than the cache can hold was stored, and the eviction
\* left maxCacheSize - evictMargin entries
C7_Witness ==
  /\ cacheMisses = maxCacheSize + 1 /\ cacheHits = 0
  /\ pending = EmptyBag
  /\ obs.op = "return" /\ obs.strategy = "running" /\ obs.calls = 1
  /\ Cardinality(DOMAIN smartTileCache) = maxCacheSize - evictMargin
  /\ Len(frozenTileCache) = frozenCap

\* the (name, priority) pair of a template, absence kept apart from the defaults
LogicalPair(t) ==
  [hasName |-> t.hasName, name |-> t.name, hasSortID |-> t.hasSortID, sortID |-> t.sortID]

\* the multiset of the pairs of a sequence of templates
RECURSIVE PairBag(_)
PairBag(seq) ==
  IF seq = <<>> THEN EmptyBag
  ELSE SetToBag({LogicalPair(Head(seq))}) (+) PairBag(Tail(seq))

\* the three logical parts of a request: tile coordinate, multiset of the pairs of the
\* enabled templates, payload (absent, or its size and type)
LogicalParts(in) ==
  [tile |-> <<in.tileCoords.x, in.tileCoords.y>>,
   templates |-> PairBag(filterEnabled(in.templateArray)),
   payload |-> in.tileBlob]

\* C8: two requests that differ in one of the three logical parts get different keys.
C8_KeyInjective ==
  (keys.built /\ LogicalParts(keys.a) # LogicalParts(keys.b)) => keys.keyA # keys.keyB

\* a step that runs clearSmartTileCache
Clears ==
  \/ toggleSmartTileCache /\ smartTileCacheEnabled
  \/ (invalidateCacheForSettingsChange \/ invalidateCache) /\ invalidates
  \/ initializeTileRefreshPause /\ lsVersion # cacheVersion

\* C9: after a step that clears the smart cache, the cache and the ledger are empty,
\* both counters are 0, the saved statistics are {hits: 0, misses: 0}, and
\* getSmartCacheStats reports size 0 and hitRate "0.0%".
C9_ClearResets ==
  [][Clears =>
       /\ smartTileCache' = EmptyCache
       /\ cacheAccessOrder' = <<>>
       /\ cacheHits' = 0 /\ cacheMisses' = 0
       /\ lsStats' = [present |-> TRUE, hits |-> 0, misses |-> 0]
       /\ getSmartCacheStats'.size = 0
       /\ getSmartCacheStats'.hitRate = <<48, 46, 48, 37>>]_vars

\* C9 happens: the cache was switched off after tiles had been composited
C9_Witness ==
  /\ obs.strategy = "toggleCache" /\ ~smartTileCacheEnabled
  /\ frozenTileCache # <<>>
  /\ smartTileCache = EmptyCache /\ cacheHits + cacheMisses = 0

\* C10: after invalidateCacheForSettingsChange the smart cache is empty, and the
\* frozen cache (entries and order) and the pause state are what they were.
C10_InvalidateClearsOnlySmartCache ==
  [][(invalidateCacheForSettingsChange \/ invalidateCache) =>
       /\ smartTileCache' = EmptyCache
       /\ UNCHANGED <<frozenTileCache, tileRefreshPaused, drawTemplateOnTile>>]_vars

\* C10 happens: an invalidation cleared the smart cache and the frozen cache still
\* holds tiles
C10_Witness ==
  /\ obs.strategy = "invalidate" /\ obs.flag
  /\ smartTileCache = EmptyCache /\ frozenTileCache # <<>>

C13_OnlyToggleChangesPause ==
  [][(initialized /\ tileRefreshPaused' # tileRefreshPaused) =>
       toggleTileRefreshPause]_vars

\* C13 happens: initialize was called again in a session that composited tiles and
\* was then paused, and the session is still paused
C13_Witness ==
  /\ obs.strategy = "initialize"
  /\ tileRefreshPaused /\ drawTemplateOnTile = "paused"
  /\ frozenTileCache # <<>>

\* the keys of the frozen cache, oldest insertion first
FrozenKeys(frozen) == [i \in 1..Len(frozen) |-> frozen[i].key]

\* C14 as claimed: the frozen cache never holds more than frozenCap entries; a write
\* that pushes it over the cap removes exactly one entry, the oldest one; and the tile
\* just written, new or re-written, is the newest entry afterwards (a re-written tile
\* counts as newly inserted), so that the oldest entry is the tile written least
\* recently.
C14_FrozenFifoByLastWrite ==
  /\ [](Len(frozenTileCache) <= frozenCap)
  /\ [][\A r \in BagToSet(pending), result \in Results :
          (Continue(r, result) /\ storesResult(r.kind)) =>
            LET tileKey == tileKeyOf(r.tileCoords)
                written == frozenSet(frozenTileCache, tileKey, result)
            IN /\ Len(frozenTileCache') <= frozenCap
               /\ Len(written) > frozenCap => frozenTileCache' = Tail(written)
               /\ frozenTileCache'[Len(frozenTileCache')] =
                    [key |-> tileKey, value |-> result]]_vars

\* C14 as amended: the frozen cache never holds more than frozenCap entries; a write
\* of a tile that has no entry appends one, and if that pushes the cache over the cap
\* exactly the entry inserted first is removed; a write of a tile that has an entry
\* replaces the value where the entry stands (its place in the order is that of its
\* first insertion) and removes nothing; the tile just written is in the cache.
C14_FrozenFifoByInsertion ==
  /\ [](Len(frozenTileCache) <= frozenCap)
  /\ [][\A r \in BagToSet(pending), result \in Results :
          (Continue(r, result) /\ storesResult(r.kind)) =>
            LET tileKey == tileKeyOf(r.tileCoords)
                before == FrozenKeys(frozenTileCache)
                known == \E i \in 1..Len(before) : before[i] = tileKey
            IN /\ FrozenHolds(frozenTileCache', r.tileCoords, result)
               /\ \A i \in 1..Len(frozenTileCache), j \in 1..Len(frozenTileCache') :
                    (frozenTileCache[i].key = frozenTileCache'[j].key
                     /\ frozenTileCache[i].key # tileKey) =>
                      frozenTileCache'[j].value = frozenTileCache[i].value
               /\ FrozenKeys(frozenTileCache') =
                    IF known THEN before
                    ELSE IF Len(before) < frozenCap THEN Append(before, tileKey)
                    ELSE Append(Tail(before), tileKey)]_vars

\* C14 happens: the tile inserted first was re-written with another composite and is
\* still the first entry of a full frozen cache
C14_Witness ==
  /\ obs.op = "return" /\ obs.strategy = "running" /\ obs.calls = 1
  /\ Len(frozenTileCache) = frozenCap
  /\ frozenTileCache[1].value = obs.ret
  /\ \A i \in 2..Len(frozenTileCache) : frozenTileCache[i].value # obs.ret

\* C15: with the smart cache enabled, right after storeInSmartCache(k, v) the key k is
\* in the cache with value v, also when the store was full and entries were evicted,
\* and getFromSmartCache(k) called next returns v, adds 1 to the hits and leaves the
\* misses as they are.
C15_PutThenGet ==
  [][\A r \in BagToSet(pending), result \in Results :
       (Continue(r, result) /\ storesResult(r.kind)) =>
         /\ r.cacheKey \in DOMAIN smartTileCache'
         /\ \A t \in DateNow(cacheAccessOrder') :
              LET got == getFromSmartCache(smartTileCacheEnabled', smartTileCache',
                                           cacheAccessOrder', cacheHits', cacheMisses',
                                           r.cacheKey, t)
              IN /\ got.value = result
                 /\ got.hit
                 /\ got.hits = cacheHits' + 1
                 /\ got.misses = cacheMisses']_vars

\* C15 happens: a result was stored into a full cache, older entries were evicted and
\* the entry just stored is there, the newest of the ledger
C15_Witness ==
  /\ obs.op = "return" /\ obs.strategy = "running" /\ obs.calls = 1
  /\ cacheMisses > maxCacheSize
  /\ Cardinality(DOMAIN smartTileCache) = maxCacheSize - evictMargin
  /\ cacheAccessOrder # <<>>
  /\ smartTileCache[cacheAccessOrder[Len(cacheAccessOrder)].key] = obs.ret

\* C16: in every reachable state the keys of the access ledger are exactly the keys of
\* the smart cache, each of them once.
C16_LedgerMatchesStore ==
  /\ {cacheAccessOrder[i].key : i \in 1..Len(cacheAccessOrder)} = DOMAIN smartTileCache
  /\ Len(cacheAccessOrder) = Cardinality(DOMAIN smartTileCache)

\* C16 happens: after a pause and a resume, one of two requests that were suspended
\* together has stored its result while the other is still suspended
C16_Witness ==
  /\ lsPaused = "false" /\ ~tileRefreshPaused
  /\ obs.op = "return" /\ obs.strategy = "running" /\ obs.calls = 1
  /\ \E r \in BagToSet(pending) : r.kind = "draw"
  /\ remaining = 0
  /\ smartTileCache # EmptyCache

\* C17: the eviction in a store does nothing while the size after the set is at most
\* maxCacheSize, and otherwise removes exactly size - maxCacheSize + margin entries
\* from the cache and from the ledger; so, from an empty cache, once
\* maxCacheSize + margin + 1 distinct keys have been stored, the cache holds exactly
\* maxCacheSize entries.
C17_EvictCount ==
  /\ []((remaining = 0 /\ pending = EmptyBag) =>
          Cardinality(DOMAIN smartTileCache) = maxCacheSize)
  /\ [][\A r \in BagToSet(pending), result \in Results :
          (Continue(r, result) /\ storesResult(r.kind)) =>
            LET afterSet == cacheSet(smartTileCache, r.cacheKey, result)
                size == Cardinality(DOMAIN afterSet)
            IN IF size <= maxCacheSize
               THEN /\ smartTileCache' = afterSet
                    /\ Len(cacheAccessOrder') = size
               ELSE /\ Cardinality(DOMAIN smartTileCache') =
                         size - (size - maxCacheSize + evictMargin)
                    /\ Len(cacheAccessOrder') =
                         size - (size - maxCacheSize + evictMargin)]_vars

\* C17 happens: all MaxPuts distinct keys were stored, one store evicted, and the cache
\* is full again
C17_Witness ==
  /\ remaining = 0 /\ pending = EmptyBag
  /\ cacheMisses = MaxPuts /\ cacheHits = 0
  /\ Cardinality(DOMAIN smartTileCache) = maxCacheSize
  /\ Len(frozenTileCache) = frozenCap

\* the place of key in the history of accesses (0: never accessed)
AccessRank(log, key) ==
  IF \E i \in 1..Len(log) : log[i] = key
  THEN CHOOSE i \in 1..Len(log) : log[i] = key
  ELSE 0

\* the timestamp of key in the ledger
StampOf(order, key) == order[IndexOf(order, key)].time

\* C18 as claimed: whenever a store evicts, every removed key was last accessed (stored
\* or hit), in the order of the operations, before every retained key was, also when
\* accesses share a timestamp and a key was re-accessed by a hit.
C18_EvictsLeastRecentlyAccessed ==
  [][\A r \in BagToSet(pending), result \in Results :
       (Continue(r, result) /\ storesResult(r.kind)) =>
         LET log == touch(accessLog, r.cacheKey)
             removed == (DOMAIN smartTileCache \cup {r.cacheKey}) \ DOMAIN smartTileCache'
         IN \A x \in removed, y \in DOMAIN smartTileCache' :
              AccessRank(log, x) < AccessRank(log, y)]_vars

\* C18 as amended: whenever a store evicts, every removed key has a timestamp no later
\* than that of every retained key, and a removed key with the same timestamp as a
\* retained key stands before it in the ledger, where a key stands at the place of its
\* first insertion (a hit renews the timestamp, not the place).
C18_EvictsOldestStamps ==
  [][\A r \in BagToSet(pending), result \in Results, now \in DateNow(cacheAccessOrder) :
       (/\ Continue(r, result) /\ storesResult(r.kind)
        /\ cacheAccessOrder' =
             storeInSmartCache(smartTileCacheEnabled, smartTileCache, cacheAccessOrder,
                               r.cacheKey, result, now).order) =>
         LET order == updateCacheAccess(cacheAccessOrder, r.cacheKey, now)
             removed == (DOMAIN smartTileCache \cup {r.cacheKey}) \ DOMAIN smartTileCache'
         IN \A x \in removed, y \in DOMAIN smartTileCache' :
              \/ StampOf(order, x) < StampOf(order, y)
              \/ /\ StampOf(order, x) = StampOf(order, y)
                 /\ IndexOf(order, x) < IndexOf(order, y)]_vars

\* C18 happens: after a hit, a store into the full cache evicted entries and kept
\* more than the entry it stored
C18_Witness ==
  /\ cacheHits > 0 /\ cacheMisses > maxCacheSize
  /\ obs.op = "return" /\ obs.strategy = "running" /\ obs.calls = 1
  /\ Cardinality(DOMAIN smartTileCache) = maxCacheSize - evictMargin
  /\ Cardinality(DOMAIN smartTileCache) > 1

\* C19: generateCacheKey depends only on the tile coordinate, the (name, priority)
\* pairs of the enabled templates and the payload: two calls that agree on these
\* return the same key, whatever the order of the template list and whatever
\* templates with enabled === false it holds besides; and the call changes no state.
C19_KeyDeterministic ==
  /\ []((keys.built /\ LogicalParts(keys.a) = LogicalParts(keys.b)) =>
          keys.keyA = keys.keyB)
  /\ [][BuildKeys =>
          /\ UNCHANGED mainVars
          /\ keys'.a = keys.a /\ keys'.b = keys.b
          /\ keys'.keyA = generateCacheKey(keys.a.tileCoords, keys.a.templateArray,
                                           keys.a.tileBlob)]_vars

\* C19 happens: the keys of two calls were built whose template lists are permutations
\* of each other, and of two calls one of which has a disabled template besides
C19_Witness ==
  /\ keys.built
  /\ keys.keyA = keys.keyB
  /\ \/ /\ keys.a.templateArray = <<tA0, tB0>>
        /\ keys.b.templateArray = <<tB0, tA0>>
     \/ /\ keys.a.templateArray = <<tA1>>
        /\ keys.b.templateArray = <<tA1, tA1off>>

\* C20: the key under which a running wrapper writes a tile to the frozen cache is the
\* key under which the paused function looks the tile up and is the coordinate part
\* the request's cache key starts with; so right after a wrapper wrote a tile, the
\* paused function called for that tile finds the entry and returns the result
\* written, whatever payload it is called with.
C20_SameNormalization ==
  [][\A r \in BagToSet(pending), result \in Results :
       (Continue(r, result) /\ storesResult(r.kind)) =>
         /\ wrapperTileKey(r.tileCoords) = pausedTileKey(r.tileCoords)
         /\ Len(r.cacheKey) > Len(pausedTileKey(r.tileCoords))
         /\ SubSeq(r.cacheKey, 1, Len(pausedTileKey(r.tileCoords)) + 1) =
              pausedTileKey(r.tileCoords) \o chUnderscore
         /\ \A q \in Requests :
              pausedDraw(frozenTileCache', q.tileBlob, r.tileCoords) = result]_vars

\* C20 happens: paused, and a request was answered with a composite that a running
\* wrapper had written to the frozen cache
C20_Witness ==
  /\ tileRefreshPaused /\ lsPaused = "true"
  /\ obs.op = "return" /\ obs.strategy = "paused" /\ obs.calls = 0
  /\ obs.ret = WarmResult

\* C21: whenever an access to the smart cache is about to be counted while the
\* accesses counted so far are a multiple of statsPeriod, the saved statistics are
\* the current counters: the access that brought the count to the multiple, hit or
\* miss, resolved or rejected, was followed by a save before the next one.
C21_StatsSavedEveryPeriod ==
  [][\A q \in Requests, t \in TemplateArrays :
       (/\ RequestRunning(q.tileBlob, q.tileCoords, t)
        /\ cacheHits' + cacheMisses' # cacheHits + cacheMisses
        /\ (cacheHits + cacheMisses) % statsPeriod = 0) =>
         lsStats = saveCacheStatistics(cacheHits, cacheMisses)]_vars

\* C22: a step that lowers the hit or the miss counter is a clear of the smart cache
\* and leaves both at 0; a request that probes the enabled smart cache adds 1 to
\* exactly one of the counters; no completion, pause toggle, forced refresh,
\* frozen-cache clear or repeated initialize lowers a counter.
C22_CountersMonotone ==
  [][/\ (cacheHits' < cacheHits \/ cacheMisses' < cacheMisses) =>
          (Clears /\ cacheHits' = 0 /\ cacheMisses' = 0)
     /\ \A q \in Requests, t \in TemplateArrays :
          (RequestRunning(q.tileBlob, q.tileCoords, t) /\ probesCache(drawTemplateOnTile)) =>
            /\ cacheHits' >= cacheHits /\ cacheMisses' >= cacheMisses
            /\ cacheHits' + cacheMisses' = cacheHits + cacheMisses + 1]_vars

\* C23: an initialize that finds a saved cache version other than the current one, or
\* none, leaves the smart cache and the ledger empty, both counters 0, the saved
\* statistics {hits: 0, misses: 0} and the saved version the current one; an
\* initialize that finds the current version leaves the cache, the ledger and the
\* saved statistics as they are and sets the counters to the saved statistics.
C23_StartupVersionCheck ==
  [][initializeTileRefreshPause =>
       IF lsVersion # cacheVersion
       THEN /\ smartTileCache' = EmptyCache
            /\ cacheAccessOrder' = <<>>
            /\ cacheHits' = 0 /\ cacheMisses' = 0
            /\ lsStats' = [present |-> TRUE, hits |-> 0, misses |-> 0]
            /\ lsVersion' = cacheVersion
       ELSE /\ UNCHANGED <<smartTileCache, cacheAccessOrder, lsStats, lsVersion>>
            /\ cacheHits' = lsStats.hits
            /\ cacheMisses' = lsStats.misses]_vars

\* C23 happens: the first initialize of a session found version 0.9 and statistics of
\* an earlier session in storage
C23_Witness ==
  /\ obs.strategy = "initialize"
  /\ remaining = MaxRequests /\ pending = EmptyBag
  /\ lsEnabled = "false" /\ ~smartTileCacheEnabled
  /\ lsVersion = cacheVersion
  /\ lsStats = [present |-> TRUE, hits |-> 0, misses |-> 0]
  /\ cacheHits = 0 /\ cacheMisses = 0

\* C24: while the smart cache is switched off it is empty, and so is the ledger; a
\* getFromSmartCache returns null and leaves both counters as they are; a request made
\* then goes to the original without counting a hit or a miss; and no completion, of
\* a request made before or after the switch, puts an entry into the smart cache.
C24_DisabledCacheStaysEmpty ==
  /\ [](~smartTileCacheEnabled => (smartTileCache = EmptyCache /\ cacheAccessOrder = <<>>))
  /\ [][/\ \A q \in Requests, t \in TemplateArrays :
             (RequestRunning(q.tileBlob, q.tileCoords, t) /\ ~smartTileCacheEnabled) =>
               LET got == getFromSmartCache(smartTileCacheEnabled, smartTileCache,
                                            cacheAccessOrder, cacheHits, cacheMisses,
                                            generateCacheKey(q.tileCoords, t, q.tileBlob), 0)
               IN /\ ~Truthy(got.value) /\ ~got.hit
                  /\ got.hits = cacheHits /\ got.misses = cacheMisses
                  /\ obs'.op = "call"
                  /\ UNCHANGED <<cacheHits, cacheMisses, smartTileCache, cacheAccessOrder>>
        /\ \A r \in BagToSet(pending), result \in Results :
             (Continue(r, result) /\ ~smartTileCacheEnabled) =>
               /\ obs'.ret = result
               /\ smartTileCache' = EmptyCache
               /\ UNCHANGED <<cacheHits, cacheMisses>>]_vars

\* C24 happens: the cache was switched off while a request that had missed was
\* suspended in the original, and the cache is empty
C24_Witness ==
  /\ obs.strategy = "toggleCache" /\ ~smartTileCacheEnabled /\ lsEnabled = "false"
  /\ \E r \in BagToSet(pending) : r.kind = "draw" /\ r.cacheKey # <<>>
  /\ frozenTileCache # <<>>
  /\ smartTileCache = EmptyCache

\* C25: the frozen cache holds, for each tile it holds, the last result the running
\* wrapper returned for that tile: whenever a running request returns, from the smart
\* cache or from the original while not paused, the paused function called next for
\* that tile returns the same value if the frozen cache has the tile; and the frozen
\* cache changes only when a running request completes or when it is cleared.
C25_FrozenIsLastRendered ==
  [][/\ \A q \in Requests, t \in TemplateArrays :
          (/\ RequestRunning(q.tileBlob, q.tileCoords, t)
           /\ obs'.op = "return"
           /\ FrozenKnows(frozenTileCache', q.tileCoords)) =>
            pausedDraw(frozenTileCache', q.tileBlob, q.tileCoords) = obs'.ret
     /\ \A r \in BagToSet(pending), result \in FreezeResults \cup Results :
          (/\ Continue(r, result) /\ r.kind = "draw" /\ ~tileRefreshPaused
           /\ FrozenKnows(frozenTileCache', r.tileCoords)) =>
            pausedDraw(frozenTileCache', r.tileBlob, r.tileCoords) = result
     /\ frozenTileCache' # frozenTileCache =>
          \/ clearFrozenTileCache
          \/ \E r \in BagToSet(pending), result \in FreezeResults \cup Results :
               Continue(r, result) /\ r.kind = "draw"]_vars

\* C26: toggleTileRefreshPause and the import it schedules (the only one scheduled in
\* FreezeSpec) leave the smart cache, the ledger and both counters as they were, so
\* that a key cached before a pause and a resume is still cached after them.
C26_PauseToggleKeepsCache ==
  [][(toggleTileRefreshPause \/ invalidateCache) =>
       UNCHANGED <<smartTileCache, cacheAccessOrder, cacheHits, cacheMisses>>]_vars

\* C27: while paused, no request changes the frozen cache, the smart cache or the
\* ledger: a wrapper request that was suspended in the original when the pause began
\* returns the original's result when it completes and stores it nowhere, and so do
\* paused requests, forced refreshes and rejections; the frozen cache changes while
\* paused only by clearFrozenTileCache.
C27_PausedWritesNothing ==
  [][tileRefreshPaused =>
       /\ \A r \in BagToSet(pending), result \in Results :
            Continue(r, result) =>
              /\ obs'.op = "return" /\ obs'.ret = result
              /\ UNCHANGED <<frozenTileCache, smartTileCache, cacheAccessOrder>>
       /\ \A r \in BagToSet(pending) :
            Reject(r) => UNCHANGED <<frozenTileCache, smartTileCache, cacheAccessOrder>>
       /\ \A q \in Requests :
            (RequestOf(q) \/ forceRefreshSingleTile(q.tileBlob, q.tileCoords)) =>
              UNCHANGED <<frozenTileCache, smartTileCache, cacheAccessOrder>>
       /\ frozenTileCache' # frozenTileCache => clearFrozenTileCache]_vars

\* C27 happens: a request for a tile that has no frozen entry missed, the session was
\* paused while it was suspended, and it has returned the composite; the frozen cache
\* and the smart cache hold what they held
C27_Witness ==
  /\ tileRefreshPaused /\ scheduled = 1
  /\ obs.op = "return" /\ obs.strategy = "running" /\ obs.calls = 1 /\ Truthy(obs.ret)
  /\ cacheMisses = maxCacheSize + 1
  /\ Cardinality(DOMAIN smartTileCache) = maxCacheSize
  /\ Len(frozenTileCache) = frozenCap
  /\ ~FrozenKnows(frozenTileCache, Coords(0, 0))

\* C28: a wrapper request that was suspended in the original while an invalidation ran
\* does not put its result into the smart cache: when the operation before a
\* completion was an invalidation, the completing request's key is not in the smart
\* cache afterwards.
C28_NoStaleWriteAfterInvalidation ==
  [][\A r \in BagToSet(pending), result \in Results :
       (obs.strategy = "invalidate" /\ r.kind = "draw" /\ Continue(r, result)) =>
         r.cacheKey \notin DOMAIN smartTileCache']_vars

=============================================================================
